---- MODULE Spec2Model ----
(***************************************************************************)
(* Versioned document model of io-functions-commons                        *)
(* (src/utils/cosmosdb_model_versioned.ts): the composite id, the          *)
(* create / update / upsert protocols and the "find latest version" query, *)
(* run by several concurrent callers against one Cosmos container.         *)
(*                                                                         *)
(* Strings are sequences of one-character strings, so that the id          *)
(* generation (padding, slicing, concatenation) is computed as the code    *)
(* computes it.  JavaScript objects are functions from field names to      *)
(* values; the object spread {...o, k: v} is (k :> v) @@ o.                *)
(***************************************************************************)
EXTENDS Integers, Sequences, FiniteSets, TLC

\* ------------------------------------------------------------------ bounds
\* Number of concurrent callers (parallel invocations of the model's methods).
NumCallers == 2
\* Highest version a write may create (caps the otherwise unbounded counter).
MaxVersion == 2

Callers == 1..NumCallers
\* The two upsert calls of a race and one other writer.
RaceCallers == {1, 2, 3}

\* ------------------------------------------------------------- value sets
ModelIds == { <<"a">>, <<"b">> }
Partitions == { <<"p">>, <<"q">> }
Emails == { "email@example.com", "emailUpdated@example.com" }

\* Value of the optional constructor argument partitionKey when it is omitted.
Undefined == "undefined"
\* The name of the entity field that holds the model id.
modelIdKey == "modelId"
\* The name of the entity field that holds the partition key, when configured.
partitionKeyField == "fiscalCode"

VARIABLES
  callers,      \* the concurrent invocations that use the model
  store,        \* the documents held by the container
  partitionKey, \* this.partitionKey: Undefined or the partition key field
  pc,           \* per caller: "idle", "upsert" (between query and create), "done"
  op,           \* per caller: the method of the current call
  key,          \* per caller: the search key of the document of the current call
  arg,          \* per caller: the item upsert holds between its query and its create
  next,         \* per caller: the version the call hands to createNewVersion
  res,          \* per caller: the value the current call resolved to
  call,         \* the call of a pure function under study: its inputs and its result
  adapter,      \* the container: the answers it may give, and its answer to the next call
  calls         \* per caller: the container calls the current call has issued

vars == <<callers, store, partitionKey, pc, op, key, arg, next, res, call, adapter, calls>>

\* --------------------------------------------------------- fp-ts results
Right(v) == [tag |-> "Right", value |-> v]
Left(e) == [tag |-> "Left", value |-> e]
some(v) == [tag |-> "Some", value |-> v]
none == [tag |-> "None"]
NoResult == [tag |-> "Pending"]
NoArg == <<>>
NoCall == [f |-> "none"]
\* No version: below every version.
NoVersion == 0 - 1

\* { kind: "COSMOS_ERROR_RESPONSE", error: { code } }
\* { kind: "COSMOS_EMPTY_RESPONSE" }
CosmosEmptyResponse == [kind |-> "COSMOS_EMPTY_RESPONSE"]

CosmosErrorResponse(code) == [kind |-> "COSMOS_ERROR_RESPONSE", error |-> [code |-> code]]
Conflict == Left(CosmosErrorResponse(409))

\* ------------------------------------------------------- id generation
paddingLength == 16

DigitChars == <<"0", "1", "2", "3", "4", "5", "6", "7", "8", "9">>

\* String(version): the decimal representation of a non-negative integer.
RECURSIVE String(_)
String(n) ==
  IF n < 10 THEN <<DigitChars[n + 1]>>
  ELSE String(n \div 10) \o <<DigitChars[(n % 10) + 1]>>

\* "0".repeat(n)
repeat(ch, n) == [i \in 1..n |-> ch]

\* s.slice(-n): the last n characters of s (all of s when it is shorter).
slice(s, n) == IF Len(s) <= n THEN s ELSE SubSeq(s, Len(s) - n + 1, Len(s))

\* The decimal representation is not padded.
paddedVersion_noPadding(str) == str

\* ("0".repeat(paddingLength) + str).slice(-paddingLength), str = String(version)
paddedVersion(str) == slice(repeat("0", paddingLength) \o str, paddingLength)

\* The model id and the decimal representation, joined as they are.
versionedModelIdOf_concat(modelId, str) == modelId \o str

\* `${String(modelId)}-${paddedVersion}`, given str = String(version)
versionedModelIdOf(modelId, str) == modelId \o <<"-">> \o paddedVersion(str)

\* A padding one character short.
generateVersionedModelId_padding15(modelId, version) ==
  modelId \o <<"-">> \o slice(repeat("0", paddingLength - 1) \o String(version), paddingLength - 1)

generateVersionedModelId(modelId, version) ==
  versionedModelIdOf(modelId, String(version))

\* An increment that skips a version.
incVersion_two(version) == version + 2

incVersion(version) == version + 1

\* ------------------------------------------------------------ the container
\* The field the container is partitioned by: the configured partition key
\* field, or the model id field ("the model ID is also the partition key").
containerPartitionKey == IF partitionKey = Undefined THEN modelIdKey ELSE partitionKey

PartitionOf(d) == d[containerPartitionKey]

\* The system properties the container sets on every stored item.
SystemProperties ==
  ("_etag" :> "etag") @@ ("_rid" :> "rid") @@ ("_self" :> "self") @@ ("_ts" :> 1)

CosmosDecodingError == [kind |-> "COSMOS_DECODING_ERROR"]

\* The fields a retrieved document (TR) must have: those of the entity (T),
\* those of a versioned model (id, version), and the system properties.
RetrievedFields ==
  {"id", "version", modelIdKey, "email"} \cup DOMAIN SystemProperties
    \cup (IF partitionKey = Undefined THEN {} ELSE {partitionKey})

\* A decoder that accepts whatever it is given.
retrievedItemT_decode_any(raw) == Right(raw)

\* retrievedItemT.decode: the raw item when it has every required field,
\* a validation failure otherwise.
retrievedItemT_decode(raw) ==
  IF RetrievedFields \subseteq DOMAIN raw THEN Right(raw) ELSE Left(CosmosDecodingError)

\* CosmosdbModel.create over container.items.create: the item is stored and
\* returned with its system properties iff no item with the same id exists in
\* its partition; otherwise the call fails with code 409 and stores nothing.
\* When the container rejects the call (answer "error", with adapter.code) the
\* rejection is returned as a COSMOS_ERROR_RESPONSE with the container's code; when it
\* resolves without a resource (answer "empty") the result is
\* COSMOS_EMPTY_RESPONSE.  One container call is issued in every case.
BaseCreate(st, doc) ==
  IF adapter.answer = "error"
  THEN [store |-> st, res |-> Left(CosmosErrorResponse(adapter.code)), calls |-> <<"create">>]
  ELSE IF \E d \in st : d.id = doc.id /\ PartitionOf(d) = PartitionOf(doc)
  THEN [store |-> st, res |-> Conflict, calls |-> <<"create">>]
  ELSE LET stored == SystemProperties @@ doc
       IN  [store |-> st \cup {stored},
            res |-> IF adapter.answer = "empty" THEN Left(CosmosEmptyResponse)
                    ELSE Right(stored),
            calls |-> <<"create">>]

\* CosmosdbModel.findOneByQuery: the query runs in the partition given by
\* options.partitionKey, and the call resolves to the first document of the
\* result, if any, decoded as a retrieved document.  A query is its WHERE
\* parameter and its ORDER BY direction.
BaseFindOneByQuery(st, q, options) ==
  LET matches == { d \in st : d[modelIdKey] = q.modelId
                              /\ PartitionOf(d) = options.partitionKey }
      first == CHOOSE d \in matches : \A e \in matches :
                 IF q.order = "DESC" THEN e.version <= d.version
                 ELSE e.version >= d.version
      decoded == retrievedItemT_decode(first)
  IN  IF adapter.answer = "error" THEN Left(CosmosErrorResponse(adapter.code))
      ELSE IF matches = {} THEN Right(none)
      ELSE IF decoded.tag = "Left" THEN decoded
      ELSE Right(some(decoded.value))

\* The item is stored as a "not found" answer when the read misses.
BaseFind_errorAsNone(st, id, partition) ==
  LET found == { d \in st : d.id = id /\ PartitionOf(d) = partition }
  IN  IF found = {} \/ adapter.answer # "ok" THEN Right(none)
      ELSE Right(some(CHOOSE d \in found : TRUE))

\* A read that returns no resource is reported as an empty response.
BaseFind_noneAsError(st, id, partition) ==
  LET found == { d \in st : d.id = id /\ PartitionOf(d) = partition }
  IN  IF adapter.answer = "error" THEN Left(CosmosErrorResponse(adapter.code))
      ELSE IF found = {} \/ adapter.answer = "empty" THEN Left(CosmosEmptyResponse)
      ELSE Right(some(CHOOSE d \in found : TRUE))

\* CosmosdbModel.find over container.item(id, partition).read(): the item,
\* decoded as a retrieved document, if the read returns one, none if it
\* returns no resource, the container's rejection as a COSMOS_ERROR_RESPONSE.
BaseFind(st, id, partition) ==
  LET found == { d \in st : d.id = id /\ PartitionOf(d) = partition }
      decoded == retrievedItemT_decode(CHOOSE d \in found : TRUE)
  IN  IF adapter.answer = "error" THEN Left(CosmosErrorResponse(adapter.code))
      ELSE IF found = {} \/ adapter.answer = "empty" THEN Right(none)
      ELSE IF decoded.tag = "Left" THEN decoded
      ELSE Right(some(decoded.value))

\* A response without a resource is taken as success: the item is returned.
BaseUpsert_emptyAsItem(st, doc) ==
  LET stored == SystemProperties @@ doc
      kept == { d \in st : ~(d.id = doc.id /\ PartitionOf(d) = PartitionOf(doc)) }
  IN  IF adapter.answer = "error"
      THEN [store |-> st, res |-> Left(CosmosErrorResponse(adapter.code)), calls |-> <<"upsert">>]
      ELSE [store |-> kept \cup {stored}, res |-> Right(stored), calls |-> <<"upsert">>]

\* An upsert that does not replace: it creates, or fails on an id that is taken.
BaseUpsert_create(st, doc) ==
  LET r == BaseCreate(st, doc)
  IN  [store |-> r.store, res |-> r.res, calls |-> <<"upsert">>]

\* CosmosdbModel.upsert over container.items.upsert: the item replaces the
\* stored one with its id, or is added; results as for create.
BaseUpsert(st, doc) ==
  LET stored == SystemProperties @@ doc
      kept == { d \in st : ~(d.id = doc.id /\ PartitionOf(d) = PartitionOf(doc)) }
  IN  IF adapter.answer = "error"
      THEN [store |-> st, res |-> Left(CosmosErrorResponse(adapter.code)), calls |-> <<"upsert">>]
      ELSE [store |-> kept \cup {stored},
            res |-> IF adapter.answer = "empty" THEN Left(CosmosEmptyResponse)
                    ELSE Right(stored),
            calls |-> <<"upsert">>]

\* ------------------------------------------------- CosmosdbModelVersioned
getModelId(o) == o[modelIdKey]

\* The search key never carries the partition key.
getSearchKey_modelIdOnly(document) ==
  <<document[modelIdKey]>>

getSearchKey(document) ==
  IF partitionKey = Undefined
  THEN <<document[modelIdKey]>>
  ELSE <<document[modelIdKey], document[partitionKey]>>

\* The query ordered by ascending version.
findLastVersionByModelId_asc(st, searchKey) ==
  LET modelId == searchKey[1]
  IN  BaseFindOneByQuery(st, [modelId |-> modelId, order |-> "ASC"],
        [maxItemCount |-> 1,
         partitionKey |-> IF Len(searchKey) > 1 THEN searchKey[2] ELSE modelId])

\* The query always runs in the partition named by the model id.
findLastVersionByModelId_modelIdPartition(st, searchKey) ==
  LET modelId == searchKey[1]
  IN  BaseFindOneByQuery(st, [modelId |-> modelId, order |-> "DESC"],
        [maxItemCount |-> 1, partitionKey |-> modelId])

\* SELECT * FROM m WHERE m.<modelIdKey> = @modelId ORDER BY m.version DESC
findLastVersionByModelId(st, searchKey) ==
  LET modelId == searchKey[1]
  IN  BaseFindOneByQuery(st, [modelId |-> modelId, order |-> "DESC"],
        [maxItemCount |-> 1,
         partitionKey |-> IF Len(searchKey) > 1 THEN searchKey[2] ELSE modelId])

\* The latest version found is ignored.
getNextVersion_zero(st, searchKey) ==
  LET r == findLastVersionByModelId(st, searchKey)
  IN  IF r.tag = "Left" THEN r ELSE Right(0)

\* A lookup that failed is taken as "no version stored".
getNextVersion_swallow(st, searchKey) ==
  LET r == findLastVersionByModelId(st, searchKey)
  IN  IF r.tag = "Left" THEN Right(0)
      ELSE IF r.value.tag = "Some" THEN Right(incVersion(r.value.value.version))
      ELSE Right(0)

\* findLastVersionByModelId(searchKey).map(maybeLastVersion =>
\*   maybeLastVersion.map(_ => incVersion(_.version)).getOrElse(0))
getNextVersion(st, searchKey) ==
  LET r == findLastVersionByModelId(st, searchKey)
  IN  IF r.tag = "Left" THEN r
      ELSE IF r.value.tag = "Some" THEN Right(incVersion(r.value.value.version))
      ELSE Right(0)

\* const { _etag, _rid, _self, _ts, id, version, ...n } = o; return n
toBaseType(o) ==
  [f \in DOMAIN o \ {"_etag", "_rid", "_self", "_ts", "id", "version"} |-> o[f]]

\* The version given is ignored for the latest one of the container.
createNewVersion_latest(st, o, version) ==
  LET modelId == getModelId(o)
      latest == getNextVersion(st, getSearchKey(o)).value
  IN  BaseCreate(st, [id |-> generateVersionedModelId(modelId, latest),
                      version |-> latest] @@ o)

\* The item is spread last: { id, version, ...o }, so its own version wins.
createNewVersion_spreadLast(st, o, version) ==
  LET modelId == getModelId(o)
  IN  BaseCreate(st, o @@ [id |-> generateVersionedModelId(modelId, version),
                           version |-> version])

\* The item is written with the container's upsert: a stored item with the
\* same id in the same partition is replaced.
createNewVersion_replace(st, o, version) ==
  LET modelId == getModelId(o)
      doc == [id |-> generateVersionedModelId(modelId, version), version |-> version] @@ o
      kept == { d \in st : ~(d.id = doc.id /\ PartitionOf(d) = PartitionOf(doc)) }
  IN  BaseCreate(kept, doc)

\* The id is generated from the version the item carries, when it carries one.
createNewVersion_itemVersion(st, o, version) ==
  LET modelId == getModelId(o)
      v == IF "version" \in DOMAIN o THEN o.version ELSE version
  IN  BaseCreate(st, [id |-> generateVersionedModelId(modelId, v),
                      version |-> version] @@ o)

\* A create that failed is tried once more.
createNewVersion_retry(st, o, version) ==
  LET modelId == getModelId(o)
      doc == [id |-> generateVersionedModelId(modelId, version), version |-> version] @@ o
      first == BaseCreate(st, doc)
      second == BaseCreate(first.store, doc)
  IN  IF first.res.tag = "Right" THEN first
      ELSE [second EXCEPT !.calls = first.calls \o second.calls]

\* super.create({ ...o, id: generateVersionedModelId(modelId, version), version })
createNewVersion(st, o, version) ==
  LET modelId == getModelId(o)
  IN  BaseCreate(st, [id |-> generateVersionedModelId(modelId, version),
                      version |-> version] @@ o)

\* ---------------------------------------------------------------- inputs
\* The model id whose document the callers create and revise.  The container
\* also holds, from the start, documents of other entities (another model id;
\* with a partition key configured, also the same model id in another
\* partition), which the callers read and try to create again.
Revised == <<"a">>
FirstEmail == "email@example.com"
SecondEmail == "emailUpdated@example.com"

Keys ==
  IF partitionKey = Undefined
  THEN { (modelIdKey :> m) : m \in ModelIds }
  ELSE { (modelIdKey :> Revised) @@ (partitionKeyField :> p) : p \in Partitions }

\* The entities (T) of the configured model.
Entities == { k @@ [email |-> e] : k \in Keys, e \in Emails }

IsRevised(e) ==
  /\ e[modelIdKey] = Revised
  /\ partitionKey # Undefined => e[partitionKeyField] = <<"p">>

\* Items (TN) given to create and upsert: an entity; the ones with the first
\* email carry a version of their own (as a NewService does), the others none.
NewItem(e) == IF e.email = FirstEmail THEN [version |-> 1] @@ e ELSE e

\* upsert is given the item that carries a version of its own.
UpsertItems == { NewItem(e) : e \in { x \in Entities : IsRevised(x) /\ x.email = FirstEmail } }

CreateItems == { NewItem(e) : e \in { x \in Entities : IsRevised(x) \/ x.email = FirstEmail } }

SearchKeys == { getSearchKey(e) : e \in Entities }

NoKey == <<>>

\* The documents the container holds from the start: version 0 of every other
\* entity, and version 1 of one of them, written through this same layer.
InitialStore ==
  LET others == { k \in Keys : ~IsRevised(k) }
      two == CHOOSE k \in others :
               partitionKey # Undefined => k[partitionKeyField] # <<"p">>
      v0 == { createNewVersion({}, k @@ [email |-> FirstEmail], 0).res.value : k \in others }
  IN  createNewVersion(v0, two @@ [email |-> SecondEmail], 1).store

\* ---------------------------------------------------------------- actions
\* A container that answers every call.
ReliableAdapter == [answers |-> {"ok"}, codes |-> {500}, answer |-> "ok", code |-> 500]

\* The container's answer to the next call is one of those it may give; when
\* it is a rejection, the code is one of those it may reject with.
NextAnswer ==
  adapter' \in { [adapter EXCEPT !.answer = "error", !.code = k] :
                   k \in IF "error" \in adapter.answers THEN adapter.codes ELSE {} }
              \cup { [adapter EXCEPT !.answer = a] : a \in adapter.answers \ {"error"} }

InitCallers ==
  /\ pc = [c \in callers |-> "idle"]
  /\ op = [c \in callers |-> "none"]
  /\ key = [c \in callers |-> NoKey]
  /\ arg = [c \in callers |-> NoArg]
  /\ next = [c \in callers |-> NoVersion]
  /\ res = [c \in callers |-> NoResult]
  /\ calls = [c \in callers |-> << >>]

\* The model id is the partition key (the constructor is given no partitionKey).
Init ==
  /\ adapter = ReliableAdapter
  /\ callers = Callers
  /\ partitionKey = Undefined
  /\ store = InitialStore
  /\ InitCallers
  /\ call = NoCall

\* The constructor is given a partition key field other than the model id.
InitPK ==
  /\ adapter = ReliableAdapter
  /\ callers = Callers
  /\ partitionKey = partitionKeyField
  /\ store = InitialStore
  /\ InitCallers
  /\ call = NoCall

\* The model id is the partition key; two racing calls and one other writer.
InitRace ==
  /\ adapter = ReliableAdapter
  /\ callers = RaceCallers
  /\ partitionKey = Undefined
  /\ store = InitialStore
  /\ InitCallers
  /\ call = NoCall

\* The call of caller c resolves to r.res and leaves the container as r.store.
Resolve(c, name, k, version, r) ==
  /\ store' = r.store
  /\ res' = [res EXCEPT ![c] = r.res]
  /\ pc' = [pc EXCEPT ![c] = "done"]
  /\ op' = [op EXCEPT ![c] = name]
  /\ key' = [key EXCEPT ![c] = k]
  /\ arg' = [arg EXCEPT ![c] = NoArg]
  /\ next' = [next EXCEPT ![c] = version]
  /\ calls' = [calls EXCEPT ![c] = @ \o r.calls]
  /\ NextAnswer
  /\ UNCHANGED <<callers, partitionKey, call>>

\* create made to behave as upsert does: it writes the next free version.
create_nextVersion(c, o) ==
  /\ pc[c] = "idle"
  /\ getNextVersion(store, getSearchKey(o)).value <= MaxVersion
  /\ Resolve(c, "create", getSearchKey(o), getNextVersion(store, getSearchKey(o)).value,
             createNewVersion(store, o, getNextVersion(store, getSearchKey(o)).value))

\* create hands the item's own version to createNewVersion when it has one.
create_itemVersion(c, o) ==
  /\ pc[c] = "idle"
  /\ LET v == IF "version" \in DOMAIN o THEN o.version ELSE 0
     IN  Resolve(c, "create", getSearchKey(o), v, createNewVersion(store, o, v))

create(c, o) ==
  /\ pc[c] = "idle"
  /\ Resolve(c, "create", getSearchKey(o), 0, createNewVersion(store, o, 0))

update(c, o) ==
  /\ pc[c] = "idle"
  /\ incVersion(o.version) <= MaxVersion
  /\ Resolve(c, "update", getSearchKey(o), incVersion(o.version),
             createNewVersion(store, toBaseType(o), incVersion(o.version)))

\* upsert, first half: getNextVersion(getSearchKey(o)) has resolved.
upsert_getNextVersion(c, o) ==
  /\ pc[c] = "idle"
  /\ LET r == getNextVersion(store, getSearchKey(o))
     IN  /\ r.tag = "Right"
         /\ r.value <= MaxVersion
         /\ next' = [next EXCEPT ![c] = r.value]
  /\ pc' = [pc EXCEPT ![c] = "upsert"]
  /\ op' = [op EXCEPT ![c] = "upsert"]
  /\ key' = [key EXCEPT ![c] = getSearchKey(o)]
  /\ arg' = [arg EXCEPT ![c] = o]
  /\ calls' = [calls EXCEPT ![c] = <<"query">>]
  /\ NextAnswer
  /\ UNCHANGED <<callers, store, partitionKey, res, call>>

\* upsert when getNextVersion resolved to an error: the chain stops there and
\* the error is the result.
upsert_getNextVersionLeft(c, o) ==
  /\ pc[c] = "idle"
  /\ LET r == getNextVersion(store, getSearchKey(o))
     IN  /\ r.tag = "Left"
         /\ Resolve(c, "upsert", getSearchKey(o), NoVersion,
                    [store |-> store, res |-> r, calls |-> <<"query">>])

\* upsert, second half: the chained createNewVersion(o, nextVersion).
upsert_createNewVersion(c) ==
  /\ pc[c] = "upsert"
  /\ Resolve(c, "upsert", key[c], next[c], createNewVersion(store, arg[c], next[c]))

find(c, searchKey) ==
  /\ pc[c] = "idle"
  /\ Resolve(c, "findLastVersionByModelId", searchKey, NoVersion,
             [store |-> store, res |-> findLastVersionByModelId(store, searchKey),
              calls |-> <<"query">>])

\* The caller takes the result and is free to call again.
return(c) ==
  /\ pc[c] = "done"
  /\ pc' = [pc EXCEPT ![c] = "idle"]
  /\ op' = [op EXCEPT ![c] = "none"]
  /\ key' = [key EXCEPT ![c] = NoKey]
  /\ arg' = [arg EXCEPT ![c] = NoArg]
  /\ next' = [next EXCEPT ![c] = NoVersion]
  /\ res' = [res EXCEPT ![c] = NoResult]
  /\ calls' = [calls EXCEPT ![c] = << >>]
  /\ UNCHANGED <<callers, store, partitionKey, call, adapter>>

\* update is given a document read from the store, its entity fields
\* (other than the keys) possibly changed by the caller.
Next ==
  \E c \in callers :
    \/ \E o \in CreateItems : create(c, o)
    \/ \E d \in store, e \in Emails : IsRevised(d) /\ update(c, [d EXCEPT !.email = e])
    \/ \E o \in UpsertItems : upsert_getNextVersion(c, o)
    \/ upsert_createNewVersion(c)
    \/ \E k \in SearchKeys : find(c, k)
    \/ return(c)

Spec == Init /\ [][Next]_vars

SpecPK == InitPK /\ [][Next]_vars

SpecRace == InitRace /\ [][Next]_vars

\* Either configuration of the constructor, with or without a partition key
\* field, and one caller.
InitKeys ==
  /\ adapter = ReliableAdapter
  /\ callers = {CHOOSE c \in Callers : \A d \in Callers : c <= d}
  /\ partitionKey \in {Undefined, partitionKeyField}
  /\ store = InitialStore
  /\ InitCallers
  /\ call = NoCall

SpecKeys == InitKeys /\ [][Next]_vars

\* ------------------------------------------ a container that fails calls
\* The container may reject a call (code 500 or 429) or resolve without a resource.
FailingAdapter ==
  [answers |-> {"ok", "error", "empty"}, codes |-> {500, 429}, answer |-> "ok", code |-> 500]

\* A single caller; the model id is the partition key.
InitErr ==
  /\ adapter = FailingAdapter
  /\ callers = {CHOOSE c \in Callers : \A d \in Callers : c <= d}
  /\ partitionKey = Undefined
  /\ store = InitialStore
  /\ InitCallers
  /\ call = NoCall

NextErr ==
  \E c \in callers :
    \/ \E o \in CreateItems : create(c, o)
    \/ \E d \in store, e \in Emails : IsRevised(d) /\ update(c, [d EXCEPT !.email = e])
    \/ \E o \in UpsertItems : upsert_getNextVersion(c, o)
    \/ \E o \in UpsertItems : upsert_getNextVersionLeft(c, o)
    \/ upsert_createNewVersion(c)
    \/ \E k \in SearchKeys : find(c, k)
    \/ return(c)

SpecErr == InitErr /\ [][NextErr]_vars

\* ------------------------------------------- CosmosdbModel used directly
\* The items given to the base model: documents with an id of their own.
BaseItems ==
  { [id |-> generateVersionedModelId(e[modelIdKey], v), version |-> v] @@ e :
      e \in Entities, v \in {0, 1} }

base_create(c, doc) ==
  /\ pc[c] = "idle"
  /\ Resolve(c, "base.create", getSearchKey(doc), NoVersion, BaseCreate(store, doc))

base_upsert(c, doc) ==
  /\ pc[c] = "idle"
  /\ Resolve(c, "base.upsert", getSearchKey(doc), NoVersion, BaseUpsert(store, doc))

base_find(c, doc) ==
  /\ pc[c] = "idle"
  /\ Resolve(c, "base.find", getSearchKey(doc), NoVersion,
             [store |-> store, res |-> BaseFind(store, doc.id, PartitionOf(doc)),
              calls |-> <<"read">>])

NextBase ==
  \E c \in callers :
    \/ \E doc \in BaseItems : base_create(c, doc)
    \/ \E doc \in BaseItems : base_upsert(c, doc)
    \/ \E doc \in BaseItems : base_find(c, doc)
    \/ return(c)

SpecBase == InitErr /\ [][NextBase]_vars

\* ------------------------------------- a container holding a drifted entry
\* A stored entry that lacks a field of the entity: one written before the
\* field was required, or by another program.
Drift(d) == [f \in DOMAIN d \ {"email"} |-> d[f]]

Drifted(d) == ~(RetrievedFields \subseteq DOMAIN d)

\* A single caller; one of the documents held from the start has drifted.
InitDrift ==
  /\ adapter = FailingAdapter
  /\ callers = {CHOOSE c \in Callers : \A d \in Callers : c <= d}
  /\ partitionKey = Undefined
  /\ store \in { (InitialStore \ {d}) \cup {Drift(d)} : d \in InitialStore }
  /\ InitCallers
  /\ call = NoCall

\* The caller reads any stored document by id, looks up the latest version
\* of any model id, and writes as before.
NextDrift ==
  \E c \in callers :
    \/ \E doc \in store : base_find(c, doc)
    \/ \E k \in SearchKeys : find(c, k)
    \/ \E o \in CreateItems : create(c, o)
    \/ \E d \in store, e \in Emails :
         IsRevised(d) /\ ~Drifted(d) /\ update(c, [d EXCEPT !.email = e])
    \/ \E o \in UpsertItems : upsert_getNextVersion(c, o)
    \/ \E o \in UpsertItems : upsert_getNextVersionLeft(c, o)
    \/ upsert_createNewVersion(c)
    \/ return(c)

SpecDrift == InitDrift /\ [][NextDrift]_vars

\* ------------------------------------- generateVersionedModelId on its own
\* Versions are given by their decimal representation String(version), so
\* that they range up to the sixteen digits of Number.MAX_SAFE_INTEGER.
MaxDigits == 2
VersionDigits == {"0", "1", "9"}

\* The representations of up to MaxDigits digits (no leading zero).
ShortNumerals ==
  { str \in UNION { [1..n -> VersionDigits] : n \in 1..MaxDigits } :
      Len(str) = 1 \/ str[1] # "0" }

\* Representations of paddingLength digits, among them 10^15 and 10^16 - 1.
LongNumerals ==
  { <<d>> \o repeat(f, paddingLength - 2) \o <<e>> :
      d \in {"1", "9"}, f \in {"0", "9"}, e \in {"0", "9"} }

\* Number.MAX_SAFE_INTEGER
MaxSafeInteger ==
  <<"9", "0", "0", "7", "1", "9", "9", "2", "5", "4", "7", "4", "0", "9", "9", "1">>

Numerals == ShortNumerals \cup LongNumerals \cup {MaxSafeInteger}

\* Two ids are to be generated for one model id.
InitId ==
  /\ adapter = ReliableAdapter
  /\ calls = << >>
  /\ callers = {}
  /\ partitionKey = Undefined
  /\ store = {}
  /\ pc = << >> /\ op = << >> /\ key = << >>
  /\ arg = << >> /\ next = << >> /\ res = << >>
  /\ call \in { [f |-> "generateVersionedModelId", modelId |-> m,
                  versions |-> <<v1, v2>>, ids |-> << >>] :
                   m \in ModelIds, v1 \in Numerals, v2 \in Numerals }

generateIds ==
  /\ call.f = "generateVersionedModelId" /\ call.ids = << >>
  /\ call' = [call EXCEPT !.ids = << versionedModelIdOf(call.modelId, call.versions[1]),
                                     versionedModelIdOf(call.modelId, call.versions[2]) >>]
  /\ UNCHANGED <<callers, store, partitionKey, pc, op, key, arg, next, res, adapter, calls>>

NextId == generateIds

SpecId == InitId /\ [][NextId]_vars

\* Versions of more than paddingLength digits that a number can hold:
\* 10^16 and 10^16 + 2.
OverlongNumerals ==
  { <<"1">> \o repeat("0", paddingLength - 1) \o <<e>> : e \in {"0", "2"} }

\* Model ids, among them ones that end in a digit, end in or contain "-", or
\* are themselves a versioned model id.
IdModelIds ==
  { <<"a">>, <<"a", "1">>, <<"a", "-">>, <<"a", "-", "1">>,
    versionedModelIdOf(<<"a">>, <<"0">>) }

IdPairs ==
  { [modelId |-> m, version |-> v] :
      m \in IdModelIds, v \in Numerals \cup OverlongNumerals }

\* Two ids are to be generated, for any two (model id, version) pairs.
InitIds ==
  /\ adapter = ReliableAdapter
  /\ calls = << >>
  /\ callers = {}
  /\ partitionKey = Undefined
  /\ store = {}
  /\ pc = << >> /\ op = << >> /\ key = << >>
  /\ arg = << >> /\ next = << >> /\ res = << >>
  /\ call \in { [f |-> "generateVersionedModelId", pairs |-> <<p1, p2>>, ids |-> << >>] :
                   p1 \in IdPairs, p2 \in IdPairs }

generateIdsOfPairs ==
  /\ call.f = "generateVersionedModelId" /\ call.ids = << >>
  /\ call' = [call EXCEPT !.ids =
                 [i \in 1..2 |-> versionedModelIdOf(call.pairs[i].modelId,
                                                    call.pairs[i].version)]]
  /\ UNCHANGED <<callers, store, partitionKey, pc, op, key, arg, next, res, adapter, calls>>

NextIds == generateIdsOfPairs

SpecIds == InitIds /\ [][NextIds]_vars

\* ------------------------------------------- async iterators over a query
\* A query's feed is read page by page.  The pages are mapped to the decoded
\* items (mapAsyncIterable), flattened to single items (flattenAsyncIterator)
\* and the successfully decoded ones mapped for the consumer
\* (mapEitherAsyncIterator).
MaxPages == 2
Iterations == {1, 2}

\* JavaScript values held by iterator results.
UndefinedValue == [type |-> "undefined"]
Page(items) == [type |-> "array", items |-> items]

FirstItem == SystemProperties @@ (CHOOSE d \in BaseItems : d.version = 0 /\ d.email = FirstEmail)
SecondItem == SystemProperties @@ (CHOOSE d \in BaseItems : d.version = 1 /\ d.email = SecondEmail)
\* An item that lacks a required field.
DriftedItem == [f \in DOMAIN SecondItem \ {"email"} |-> SecondItem[f]]

FeedPages ==
  { << >>, <<FirstItem>>, <<DriftedItem>>, <<FirstItem, DriftedItem>>,
    <<DriftedItem, SecondItem>>, <<FirstItem, SecondItem>> }

Feeds == UNION { [1..n -> FeedPages] : n \in 1..MaxPages }

\* next() of the feed's own iterator at position cursor: the next page, or
\* the final result { done: true, value: undefined }.
sourceNext(feed, cursor) ==
  IF cursor < Len(feed) THEN [done |-> FALSE, value |-> Page(feed[cursor + 1])]
  ELSE [done |-> TRUE, value |-> UndefinedValue]

\* The function the pages are mapped with: every item of the page decoded.
\* (What it makes of the value of a final result is used by no consumer.)
decodePage(v) ==
  IF v.type = "array"
  THEN Page([i \in 1..Len(v.items) |-> retrievedItemT_decode(v.items[i])])
  ELSE v

\* The function the consumer maps the decoded items with.
itemId(d) == d.id

\* f(t), for the functions f handed to the iterators: they are named.
Apply(f, t) ==
  CASE f = "decodePage" -> decodePage(t)
    [] f = "itemId" -> itemId(t)

\* f is applied to the value of a result that is not the final one only.
mapAsyncIterator_elements(r, f) ==
  IF r.done THEN [done |-> TRUE, value |-> r.value, applied |-> << >>]
  ELSE [done |-> FALSE, value |-> Apply(f, r.value), applied |-> <<r.value>>]

\* mapAsyncIterator: next: () => iter.next().then(({ done, value }) =>
\*   ({ done, value: f(value) }))
\* r is the result of iter.next(); applied lists what f was called with.
mapAsyncIterator(r, f) ==
  [done |-> r.done, value |-> Apply(f, r.value), applied |-> <<r.value>>]

\* Every call of [Symbol.asyncIterator]() opens an iterator of its own on the source.
mapAsyncIterable_fresh(iters) == [iters |-> Append(iters, 0), it |-> Len(iters) + 1]

\* mapAsyncIterable: the source's iterator is obtained once, when the
\* iterable is mapped (it is the first of iters), and
\* [Symbol.asyncIterator]: () => iterMapped hands out that one at every call.
mapAsyncIterable(iters) == [iters |-> iters, it |-> 1]

\* flattenArray[index], zero-based as in the code: undefined beyond the end.
At(flattenArray, index) ==
  IF index < Len(flattenArray) THEN flattenArray[index + 1] ELSE UndefinedValue

\* flattenAsyncIterator, next(): fl is its state (index, flattenArray), r
\* the result of iter.next(), which is awaited only when
\* flattenArray.length === index.  Yields the result, the new state, and
\* whether iter.next() was called.
flattenAsyncIterator(fl, r) ==
  IF Len(fl.flattenArray) = fl.index
  THEN IF r.done
       THEN [result |-> [done |-> TRUE, value |-> UndefinedValue], state |-> fl, fetched |-> TRUE]
       ELSE LET grown == fl.flattenArray \o r.value.items
            IN  [result |-> [done |-> FALSE, value |-> At(grown, fl.index)],
                 state |-> [index |-> fl.index + 1, flattenArray |-> grown],
                 fetched |-> TRUE]
  ELSE [result |-> [done |-> FALSE, value |-> At(fl.flattenArray, fl.index)],
        state |-> [fl EXCEPT !.index = @ + 1],
        fetched |-> FALSE]

\* A failed element ends the iteration with the failure.
mapEitherAsyncIterator_abort(r, f) ==
  IF r.done THEN [status |-> "done"]
  ELSE IF r.value = UndefinedValue THEN [status |-> "rejected", error |-> "TypeError"]
  ELSE IF r.value.tag = "Right" THEN [status |-> "value", value |-> Apply(f, r.value.value)]
  ELSE [status |-> "rejected", error |-> r.value.value.kind]

\* mapEitherAsyncIterator, one turn of the loop of next() on the result r
\* of iter.next(): done; or the mapped value of a Right; or, for a Left,
\* another turn.  isRight of an undefined element throws.
mapEitherAsyncIterator(r, f) ==
  IF r.done THEN [status |-> "done"]
  ELSE IF r.value = UndefinedValue THEN [status |-> "rejected", error |-> "TypeError"]
  ELSE IF r.value.tag = "Right" THEN [status |-> "value", value |-> Apply(f, r.value.value)]
  ELSE [status |-> "loop"]

\* An iteration that has not asked for its iterator yet.
NewIteration ==
  [st |-> "new", it |-> 0, index |-> 0, flattenArray |-> << >>,
   out |-> << >>, pages |-> {}, failed |-> FALSE, after |-> << >>, error |-> "none"]

InitStream ==
  /\ adapter = ReliableAdapter
  /\ calls = << >>
  /\ callers = {}
  /\ partitionKey = Undefined
  /\ store = {}
  /\ pc = << >> /\ op = << >> /\ key = << >>
  /\ arg = << >> /\ next = << >> /\ res = << >>
  /\ call \in { [f |-> "mapAsyncIterable", feed |-> feed, iters |-> <<0>>,
                  iterations |-> [i \in Iterations |-> NewIteration]] : feed \in Feeds }

\* Iteration i obtains its iterator from the mapped iterable and wraps it.
asyncIterator(i) ==
  /\ call.f = "mapAsyncIterable" /\ call.iterations[i].st = "new"
  /\ LET m == mapAsyncIterable(call.iters)
     IN  call' = [call EXCEPT !.iters = m.iters,
                              !.iterations[i].st = "open",
                              !.iterations[i].it = m.it]
  /\ UNCHANGED <<callers, store, partitionKey, pc, op, key, arg, next, res, adapter, calls>>

\* One turn of the loop of next() of iteration i: it asks the flattened
\* iterator for an element, which asks the mapped iterator for a page when
\* it has used up those it holds.
iteratorNext(i) ==
  /\ call.f = "mapAsyncIterable" /\ call.iterations[i].st = "open"
  /\ LET me == call.iterations[i]
         cursor == call.iters[me.it]
         page == mapAsyncIterator(sourceNext(call.feed, cursor), "decodePage")
         fl == flattenAsyncIterator([index |-> me.index, flattenArray |-> me.flattenArray], page)
         took == fl.fetched /\ ~page.done
         r == mapEitherAsyncIterator(fl.result, "itemId")
         left == ~fl.result.done /\ fl.result.value # UndefinedValue
                   /\ fl.result.value.tag = "Left"
     IN  call' = [call EXCEPT
           !.iters[me.it] = IF took THEN @ + 1 ELSE @,
           !.iterations[i] =
             [me EXCEPT
                !.index = fl.state.index,
                !.flattenArray = fl.state.flattenArray,
                !.pages = IF took THEN @ \cup {cursor + 1} ELSE @,
                !.st = CASE r.status = "done" -> "done"
                         [] r.status = "rejected" -> "rejected"
                         [] OTHER -> "open",
                !.error = IF r.status = "rejected" THEN r.error ELSE @,
                !.out = IF r.status = "value" THEN Append(@, r.value) ELSE @,
                !.after = IF r.status = "value" /\ me.failed THEN Append(@, r.value) ELSE @,
                !.failed = @ \/ left]]
  /\ UNCHANGED <<callers, store, partitionKey, pc, op, key, arg, next, res, adapter, calls>>

NextStream ==
  \E i \in Iterations :
    \/ asyncIterator(i)
    \/ iteratorNext(i)

SpecStream == InitStream /\ [][NextStream]_vars

\* ------------------------------------------------ mapAsyncIterator on its own
\* A consumer iterates mapAsyncIterator(iter, f) over a feed of pages until the
\* mapped iterator reports done.
InitMap ==
  /\ adapter = ReliableAdapter
  /\ calls = << >>
  /\ callers = {}
  /\ partitionKey = Undefined
  /\ store = {}
  /\ pc = << >> /\ op = << >> /\ key = << >>
  /\ arg = << >> /\ next = << >> /\ res = << >>
  /\ call \in { [f |-> "mapAsyncIterator", feed |-> feed, cursor |-> 0,
                  applied |-> << >>, delivered |-> << >>, done |-> FALSE] :
                   feed \in Feeds }

\* next() of the mapped iterator: one next() of the source, mapped.
mappedNext ==
  /\ call.f = "mapAsyncIterator" /\ ~call.done
  /\ LET r == mapAsyncIterator(sourceNext(call.feed, call.cursor), "decodePage")
     IN  call' = [call EXCEPT
                    !.cursor = IF r.done THEN @ ELSE @ + 1,
                    !.applied = @ \o r.applied,
                    !.delivered = IF r.done THEN @ ELSE Append(@, r.value),
                    !.done = r.done]
  /\ UNCHANGED <<callers, store, partitionKey, pc, op, key, arg, next, res, adapter, calls>>

NextMap == mappedNext

SpecMap == InitMap /\ [][NextMap]_vars

\* ------------------------------------------------- blobs read as text, as objects
BlobNotFoundCode == "BlobNotFound"

Null == [type |-> "null"]

\* A text is the sequence of its JSON tokens.
StringToken(str) == [tok |-> "string", s |-> str]
NumberToken(n) == [tok |-> "number", n |-> n]
Punct(c) == [tok |-> c]

PartitionKeyMember == <<StringToken("PartitionKey"), Punct(":"), StringToken("p")>>
RowKeyMember == <<StringToken("RowKey"), Punct(":"), StringToken("r")>>

\* Texts that are the JSON of a TableEntity: {"PartitionKey":"p","RowKey":"r"},
\* the members in the other order, and with one more member.
EntityTexts ==
  { <<Punct("{")>> \o PartitionKeyMember \o <<Punct(",")>> \o RowKeyMember \o <<Punct("}")>>,
    <<Punct("{")>> \o RowKeyMember \o <<Punct(",")>> \o PartitionKeyMember \o <<Punct("}")>>,
    <<Punct("{")>> \o PartitionKeyMember \o <<Punct(",")>> \o RowKeyMember
      \o <<Punct(","), StringToken("extra"), Punct(":"), Punct("{"), Punct("}"), Punct("}")>> }

\* Texts that are JSON but not of a TableEntity: {}, null, "p", 1,
\* {"PartitionKey":"p"}, {"PartitionKey":"p","RowKey":1},
\* {"extra":{"PartitionKey":"p","RowKey":"r"}}.
OtherJsonTexts ==
  { <<Punct("{"), Punct("}")>>,
    <<Punct("null")>>,
    <<StringToken("p")>>,
    <<NumberToken(1)>>,
    <<Punct("{")>> \o PartitionKeyMember \o <<Punct("}")>>,
    <<Punct("{")>> \o PartitionKeyMember
      \o <<Punct(","), StringToken("RowKey"), Punct(":"), NumberToken(1), Punct("}")>>,
    <<Punct("{"), StringToken("extra"), Punct(":"), Punct("{")>> \o PartitionKeyMember
      \o <<Punct(",")>> \o RowKeyMember \o <<Punct("}"), Punct("}")>> }

\* Texts that are not JSON: the empty text, {"PartitionKey":"p" (no closing
\* brace), {"PartitionKey" "p"}, {"PartitionKey":"p",}, {}}, {"PartitionKey":},
\* {1:"p"}, }.
MalformedTexts ==
  { << >>,
    <<Punct("{")>> \o PartitionKeyMember,
    <<Punct("{"), StringToken("PartitionKey"), StringToken("p"), Punct("}")>>,
    <<Punct("{")>> \o PartitionKeyMember \o <<Punct(","), Punct("}")>>,
    <<Punct("{"), Punct("}"), Punct("}")>>,
    <<Punct("{"), StringToken("PartitionKey"), Punct(":"), Punct("}")>>,
    <<Punct("{"), NumberToken(1), Punct(":"), StringToken("p"), Punct("}")>>,
    <<Punct("}")>> }

BlobTexts == EntityTexts \cup OtherJsonTexts \cup MalformedTexts

\* The err and result that getBlobToText hands to its callback.
StorageErrors ==
  { [type |-> "error", code |-> c] :
      c \in {Undefined, BlobNotFoundCode, "ContainerNotFound", "InternalError"} }

StorageResults == {Null} \cup { [type |-> "string", text |-> x] : x \in BlobTexts }

StorageAnswers ==
  { [err |-> e, result |-> r] : e \in {Null} \cup StorageErrors, r \in StorageResults }

\* fromNullable
fromNullable(v) == IF v = Null THEN none ELSE some(v)

\* Every storage error resolves to none.
getBlobAsText_errorAsNone(err, result) ==
  IF err # Null THEN <<Right(none)>> ELSE <<Right(fromNullable(result))>>

\* getBlobAsText, the callback given to blobService.getBlobToText: the
\* values it calls resolve with, in order.
getBlobAsText(err, result) ==
  IF err # Null
  THEN IF err.code # Undefined /\ err.code = BlobNotFoundCode
       THEN <<Right(none)>>
       ELSE <<Left(err)>>
  ELSE <<Right(fromNullable(result))>>

SyntaxError == [type |-> "error", name |-> "SyntaxError"]

ParseFailure == [ok |-> FALSE]

\* JSON.parse, on tokens: a value is a string, a number, null or an object
\* { "key": value, ... }; i is the position of the value's first token.
RECURSIVE parseValue(_, _)
RECURSIVE parseMembers(_, _, _)
parseValue(toks, i) ==
  IF i > Len(toks) THEN ParseFailure
  ELSE CASE toks[i].tok = "string" ->
              [ok |-> TRUE, value |-> [type |-> "string", s |-> toks[i].s], next |-> i + 1]
         [] toks[i].tok = "number" ->
              [ok |-> TRUE, value |-> [type |-> "number", n |-> toks[i].n], next |-> i + 1]
         [] toks[i].tok = "null" ->
              [ok |-> TRUE, value |-> Null, next |-> i + 1]
         [] toks[i].tok = "{" ->
              IF i + 1 <= Len(toks) /\ toks[i + 1].tok = "}"
              THEN [ok |-> TRUE, value |-> [type |-> "object", fields |-> << >>], next |-> i + 2]
              ELSE parseMembers(toks, i + 1, << >>)
         [] OTHER -> ParseFailure

\* The members of an object from position i on, up to its closing brace;
\* fields holds the members read so far (a repeated key keeps the last value).
parseMembers(toks, i, fields) ==
  IF i + 1 > Len(toks) \/ toks[i].tok # "string" \/ toks[i + 1].tok # ":"
  THEN ParseFailure
  ELSE LET v == parseValue(toks, i + 2)
       IN  IF ~v.ok \/ v.next > Len(toks) THEN ParseFailure
           ELSE LET read == (toks[i].s :> v.value) @@ fields
                IN  CASE toks[v.next].tok = "}" ->
                           [ok |-> TRUE, value |-> [type |-> "object", fields |-> read],
                            next |-> v.next + 1]
                      [] toks[v.next].tok = "," -> parseMembers(toks, v.next + 1, read)
                      [] OTHER -> ParseFailure

\* JSON.parse(text): the value, or a SyntaxError thrown.
JSON_parse(toks) ==
  LET r == parseValue(toks, 1)
  IN  IF r.ok /\ r.next = Len(toks) + 1
      THEN [thrown |-> FALSE, value |-> r.value]
      ELSE [thrown |-> TRUE, error |-> SyntaxError]

\* TableEntity = t.interface({ PartitionKey: t.string, RowKey: t.string }),
\* its decode.
TableEntity_decode(json) ==
  IF /\ json.type = "object"
     /\ {"PartitionKey", "RowKey"} \subseteq DOMAIN json.fields
     /\ \A k \in {"PartitionKey", "RowKey"} : json.fields[k].type = "string"
  THEN Right(json)
  ELSE Left([type |-> "errors"])

\* new Error(readableReport(err))
ReportedError == [type |-> "error", name |-> "Error"]

\* JSON.parse outside any try block: what it throws rejects the promise.
getBlobAsObject_noCatch(errorOrMaybeText) ==
  IF errorOrMaybeText.tag = "Left" THEN [settled |-> "resolved", value |-> errorOrMaybeText]
  ELSE IF errorOrMaybeText.value = none THEN [settled |-> "resolved", value |-> Right(none)]
  ELSE LET json == JSON_parse(errorOrMaybeText.value.value.text)
       IN  IF json.thrown THEN [settled |-> "rejected", error |-> json.error]
           ELSE LET decoded == TableEntity_decode(json.value)
                IN  [settled |-> "resolved",
                     value |-> IF decoded.tag = "Left" THEN Left(ReportedError)
                               ELSE Right(some(decoded.value))]

\* getBlobAsObject(TableEntity, ...), from the awaited result of
\* getBlobAsText on: how its promise settles.
getBlobAsObject(errorOrMaybeText) ==
  IF errorOrMaybeText.tag = "Left" THEN [settled |-> "resolved", value |-> errorOrMaybeText]
  ELSE IF errorOrMaybeText.value = none THEN [settled |-> "resolved", value |-> Right(none)]
  ELSE LET json == JSON_parse(errorOrMaybeText.value.value.text)
       IN  IF json.thrown THEN [settled |-> "resolved", value |-> Left(json.error)]
           ELSE LET decoded == TableEntity_decode(json.value)
                IN  [settled |-> "resolved",
                     value |-> IF decoded.tag = "Left" THEN Left(ReportedError)
                               ELSE Right(some(decoded.value))]

\* getBlobAsObject has called getBlobAsText, which has called
\* blobService.getBlobToText; the storage will answer with call.storage.
InitBlob ==
  /\ adapter = ReliableAdapter
  /\ calls = << >>
  /\ callers = {}
  /\ partitionKey = Undefined
  /\ store = {}
  /\ pc = << >> /\ op = << >> /\ key = << >>
  /\ arg = << >> /\ next = << >> /\ res = << >>
  /\ call \in { [f |-> "getBlobAsObject", pc |-> "getBlobToText", storage |-> a,
                  resolved |-> << >>, settled |-> "pending", value |-> NoResult] :
                   a \in StorageAnswers }

\* The storage calls the callback; the promise of getBlobAsText takes the
\* value of the first resolve.
getBlobToText_callback ==
  /\ call.f = "getBlobAsObject" /\ call.pc = "getBlobToText"
  /\ call' = [call EXCEPT
                !.pc = "getBlobAsText",
                !.resolved = @ \o getBlobAsText(call.storage.err, call.storage.result)]
  /\ UNCHANGED <<callers, store, partitionKey, pc, op, key, arg, next, res, adapter, calls>>

\* getBlobAsObject goes on after its await.
getBlobAsObject_chain ==
  /\ call.f = "getBlobAsObject" /\ call.pc = "getBlobAsText"
  /\ LET r == getBlobAsObject(call.resolved[1])
     IN  call' = [call EXCEPT
                    !.pc = "done",
                    !.settled = r.settled,
                    !.value = IF r.settled = "resolved" THEN r.value ELSE Left(r.error)]
  /\ UNCHANGED <<callers, store, partitionKey, pc, op, key, arg, next, res, adapter, calls>>

NextBlob == getBlobToText_callback \/ getBlobAsObject_chain

SpecBlob == InitBlob /\ [][NextBlob]_vars

\* ================================================================ claims
\* The documents of a model id held by a container.
DocsOfModelId(st, modelId) == { d \in st : d[modelIdKey] = modelId }

IsConflict(r) ==
  r.tag = "Left" /\ r.value.kind = "COSMOS_ERROR_RESPONSE" /\ r.value.error.code = 409

SixteenZeros ==
  <<"0", "0", "0", "0", "0", "0", "0", "0", "0", "0", "0", "0", "0", "0", "0", "0">>

\* modelId, "-", and the one-digit version k after fifteen zeros.
PaddedId(modelId, k) ==
  modelId \o <<"-">> \o SubSeq(SixteenZeros, 1, 15) \o <<DigitChars[k + 1]>>

\* C1: create on a model id with no stored document succeeds; the document it
\* returns is stored, has version 0 and id = modelId, "-", sixteen "0".
C1_FreshCreate ==
  [][\A c \in callers, o \in CreateItems :
       (op'[c] = "create" /\ create(c, o) /\ DocsOfModelId(store, o[modelIdKey]) = {})
         => /\ res'[c].tag = "Right"
            /\ res'[c].value.version = 0
            /\ res'[c].value.id = o[modelIdKey] \o <<"-">> \o SixteenZeros
            /\ res'[c].value[modelIdKey] = o[modelIdKey]
            /\ res'[c].value \in store']_vars

C1_Witness ==
  \E c \in callers :
    /\ pc[c] = "done" /\ op[c] = "create" /\ key[c] = <<Revised>>
    /\ res[c].tag = "Right" /\ res[c].value.version = 0
    /\ DocsOfModelId(store, Revised) = {res[c].value}

\* C2: once version 0 of a model id is stored, every create with that model
\* id returns 409 Conflict, whatever entity fields the item carries.
C2_DuplicateCreate ==
  [][\A c \in callers, o \in CreateItems :
       ( /\ op'[c] = "create" /\ create(c, o)
         /\ \E d \in DocsOfModelId(store, o[modelIdKey]) : d.version = 0 )
         => IsConflict(res'[c]) /\ store' = store]_vars

C2_Witness ==
  \E c \in callers :
    /\ pc[c] = "done" /\ op[c] = "create" /\ key[c] = <<Revised>>
    /\ IsConflict(res[c])
    /\ \E d \in DocsOfModelId(store, Revised) : d.version = 0 /\ d.email = SecondEmail

\* C3: a successful update of a stored document d at version k, given d with
\* its email changed, returns a document at version k+1 whose id is the model
\* id, "-", k+1 padded to 16 digits, with d's model id and the changed email.
C3_Update ==
  [][\A c \in callers, d \in store, e \in Emails :
       (op'[c] = "update" /\ update(c, [d EXCEPT !.email = e]) /\ res'[c].tag = "Right")
         => /\ res'[c].value.version = d.version + 1
            /\ res'[c].value.id = PaddedId(d[modelIdKey], d.version + 1)
            /\ res'[c].value[modelIdKey] = d[modelIdKey]
            /\ res'[c].value.email = e
            /\ res'[c].value \in store']_vars

C3_Witness ==
  \E c \in callers :
    /\ pc[c] = "done" /\ op[c] = "update"
    /\ res[c].tag = "Right" /\ res[c].value.version = 1
    /\ res[c].value.email = SecondEmail
    /\ \E d \in DocsOfModelId(store, Revised) : d.version = 0 /\ d.email = FirstEmail

\* C4: of the update calls made from the same base document (same model id,
\* same base version, so the same next version), at most one succeeds and
\* every other one returns 409 Conflict.
SameBaseUpdates(a, b) ==
  /\ a # b
  /\ pc[a] = "done" /\ op[a] = "update"
  /\ pc[b] = "done" /\ op[b] = "update"
  /\ key[a] = key[b] /\ next[a] = next[b]

C4_ConcurrentUpdate ==
  \A a, b \in callers :
    SameBaseUpdates(a, b)
      => /\ ~(res[a].tag = "Right" /\ res[b].tag = "Right")
         /\ res[a].tag # "Right" => IsConflict(res[a])
         /\ res[b].tag # "Right" => IsConflict(res[b])

C4_Witness ==
  \E a, b \in callers :
    /\ SameBaseUpdates(a, b)
    /\ res[a].tag = "Right" /\ IsConflict(res[b])

\* C5: upsert never resolves to 409 Conflict.
C5_UpsertNeverConflicts ==
  \A c \in callers : (pc[c] = "done" /\ op[c] = "upsert") => ~IsConflict(res[c])

\* C6 as stated: of two upserts of one model id that both computed the next
\* version n (their lookups both ran while the latest version was n-1) and
\* both ran their create, exactly one succeeded, with version n, and the other
\* one returned 409 Conflict.
RacingUpserts(a, b) ==
  /\ a # b
  /\ op[a] = "upsert" /\ op[b] = "upsert"
  /\ key[a] = key[b] /\ next[a] = next[b]

DocsOfItem(st, o) ==
  { d \in DocsOfModelId(st, o[modelIdKey]) : PartitionOf(d) = PartitionOf(o) }

NextOfModelId(st, modelId) ==
  IF DocsOfModelId(st, modelId) = {} THEN 0
  ELSE 1 + CHOOSE v \in { d.version : d \in DocsOfModelId(st, modelId) } :
             \A d \in DocsOfModelId(st, modelId) : d.version <= v

\* C7: upsert computes max+1 over the stored versions of the model id (0 when
\* none is stored), whatever version the item carries, and when no other
\* writer has written the model id since, its create succeeds at that version.
C7_UpsertProgression ==
  [][\A c \in callers :
       /\ \A o \in UpsertItems :
            (pc'[c] = "upsert" /\ upsert_getNextVersion(c, o))
              => next'[c] = NextOfModelId(store, o[modelIdKey])
       /\ (upsert_createNewVersion(c) /\ next[c] = NextOfModelId(store, key[c][1]))
            => /\ res'[c].tag = "Right"
               /\ res'[c].value.version = next[c]
               /\ res'[c].value.email = arg[c].email
               /\ \A d \in DocsOfModelId(store, key[c][1]) :
                    d.version < res'[c].value.version
               /\ res'[c].value \in store']_vars

C7_Witness ==
  \E c \in callers :
    /\ pc[c] = "done" /\ op[c] = "upsert"
    /\ res[c].tag = "Right" /\ res[c].value.version = 2
    /\ res[c].value.email = FirstEmail
    /\ { d.version : d \in DocsOfModelId(store, Revised) } = {0, 1, 2}

\* C8: in every reachable state findLastVersionByModelId resolves to the
\* stored document with the highest version among the documents of the model
\* id, and to none when no document of the model id is stored.
IsLatestOf(r, st, modelId) ==
  /\ r.tag = "Right"
  /\ IF DocsOfModelId(st, modelId) = {} THEN r.value = none
     ELSE /\ r.value.tag = "Some"
          /\ r.value.value \in DocsOfModelId(st, modelId)
          /\ \A d \in DocsOfModelId(st, modelId) : d.version <= r.value.value.version

C8_LatestLookup ==
  [][\A c \in callers, k \in SearchKeys :
       (op'[c] = "findLastVersionByModelId" /\ find(c, k)) => IsLatestOf(res'[c], store, k[1])]_vars

C8_Witness ==
  \E c \in callers :
    /\ pc[c] = "done" /\ op[c] = "findLastVersionByModelId" /\ key[c] = <<Revised>>
    /\ res[c].tag = "Right" /\ res[c].value.tag = "Some"
    /\ res[c].value.value.version = 2
    /\ { d.version : d \in DocsOfModelId(store, Revised) } = {0, 1, 2}

\* C9: no two stored documents with the same model id and the same partition
\* key have the same version.
C9_DistinctVersions ==
  \A d1, d2 \in store :
    ( /\ d1[modelIdKey] = d2[modelIdKey]
      /\ d1[containerPartitionKey] = d2[containerPartitionKey]
      /\ d1.version = d2.version ) => d1 = d2

C9_Witness ==
  /\ \E c \in callers : pc[c] = "done" /\ IsConflict(res[c]) /\ op[c] = "upsert"
  /\ \E d1, d2 \in store :
       /\ d1[modelIdKey] = d2[modelIdKey]
       /\ d1[containerPartitionKey] # d2[containerPartitionKey]
       /\ d1.version = d2.version
  /\ { d.version : d \in { x \in store : IsRevised(x) } } = {0, 1, 2}

\* C10: the versions stored for a model id are 0..n for some n, or none: no
\* version k+1 is stored without version k.
C10_NoGaps ==
  \A m \in ModelIds :
    \A d \in DocsOfModelId(store, m) :
      d.version = 0 \/ \E b \in DocsOfModelId(store, m) : b.version = d.version - 1

C10_Witness ==
  /\ { d.version : d \in DocsOfModelId(store, Revised) } = {0, 1, 2}
  /\ \E a, b \in callers :
       /\ pc[a] = "done" /\ op[a] = "update" /\ res[a].tag = "Right"
       /\ pc[b] = "done" /\ op[b] = "upsert" /\ IsConflict(res[b])

\* C11: every stored document has id = its model id, "-", its version padded
\* to 16 digits, whatever id, version or system properties the input carried.
C11_IdOfStored ==
  \A d \in store : d.id = PaddedId(d[modelIdKey], d.version)

C11_Witness ==
  /\ \E c \in callers :
       /\ pc[c] = "done" /\ op[c] = "update"
       /\ res[c].tag = "Right" /\ res[c].value.version = 2
       /\ res[c].value.id = PaddedId(Revised, 2)
  /\ \E d \in DocsOfModelId(store, Revised) : d.version = 0 /\ d.email = FirstEmail

\* C12: a stored document is never changed or removed: after every step of
\* create, update, upsert or findLastVersionByModelId the store still holds
\* every document it held, with the same id and the same content.
C12_Immutable ==
  [][\A d \in store :
       /\ d \in store'
       /\ \A e \in store' : (e.id = d.id /\ PartitionOf(e) = PartitionOf(d)) => e = d]_vars

C12_Witness ==
  \E a, b \in callers :
    /\ pc[a] = "done" /\ op[a] = "findLastVersionByModelId" /\ key[a] = <<Revised>>
    /\ res[a].tag = "Right" /\ res[a].value.tag = "Some" /\ res[a].value.value.version = 1
    /\ pc[b] = "done" /\ op[b] = "create" /\ key[b] = <<Revised>> /\ IsConflict(res[b])
    /\ \E d \in DocsOfModelId(store, Revised) : d.version = 0

\* The step is the write of caller c: the create, the update, or the create
\* step of the upsert that c called.
WriteStep(c) ==
  /\ pc[c] # "done" /\ pc'[c] = "done"
  /\ op'[c] \in {"create", "update", "upsert"}

\* The id that the write of caller c targets is held by a stored document.
TargetOccupied(c) ==
  \E d \in store :
    /\ d.id = PaddedId(key'[c][1], next'[c])
    /\ PartitionOf(d) = key'[c][Len(key'[c])]

Wrote(c) ==
  /\ pc[c] = "done" /\ op[c] \in {"create", "update", "upsert"}
  /\ res[c].tag = "Right"

\* C14: with concurrent callers on one container, a successful create, update
\* or upsert returns a version that no stored document of the model id has
\* and that no other successful write of the model id returned, and the
\* document it returns is stored; so the successful writes of a model id have
\* pairwise different versions and are ordered by them.
C14_DistinctSuccessfulVersions ==
  [][\A c \in callers :
       (WriteStep(c) /\ res'[c].tag = "Right")
         => /\ \A d \in DocsOfModelId(store, key'[c][1]) :
                 d.version # res'[c].value.version
            /\ \A b \in callers \ {c} :
                 (Wrote(b) /\ key[b][1] = key'[c][1])
                   => /\ res[b].value.version # res'[c].value.version
                      /\ res[b].value \in store
            /\ res'[c].value \in store']_vars

C14_Witness ==
  \E a, b \in callers :
    /\ a # b /\ Wrote(a) /\ Wrote(b) /\ key[a] = key[b]
    /\ op[a] = "create" /\ op[b] = "upsert"
    /\ res[a].value.version = 0 /\ res[b].value.version = 1

\* C15: create always attempts version 0, also for an item that carries a
\* version other than 0: it hands version 0 to createNewVersion, a document it
\* stores has version 0 and the id of (model id, 0), and it fails only when
\* that id is occupied.
C15_CreateAttemptsZero ==
  [][\A c \in callers, o \in CreateItems :
       (op'[c] = "create" /\ create(c, o))
         => /\ next'[c] = 0
            /\ res'[c].tag = "Right"
                 => /\ res'[c].value.version = 0
                    /\ res'[c].value.id = PaddedId(o[modelIdKey], 0)
                    /\ store' = store \cup {res'[c].value}
            /\ res'[c].tag # "Right"
                 => /\ IsConflict(res'[c])
                    /\ \E d \in store : d.id = PaddedId(o[modelIdKey], 0)]_vars

C15_Witness ==
  \E c \in callers :
    /\ pc[c] = "done" /\ op[c] = "create" /\ next[c] = 0
    /\ res[c].tag = "Right" /\ res[c].value.email = FirstEmail
    /\ res[c].value.version = 0 /\ res[c].value.id = PaddedId(Revised, 0)
    /\ NewItem(toBaseType(res[c].value)).version = 1

\* The UTF-16 code unit of the characters that occur in ids.
CharCode(ch) ==
  CASE ch = "-" -> 45
    [] ch \in VersionDigits \cup {"2", "3", "4", "5", "6", "7", "8"} ->
         47 + CHOOSE i \in 1..10 : DigitChars[i] = ch
    [] ch = "a" -> 97
    [] ch = "b" -> 98

\* s < t for strings: the order of the first code unit that differs, a proper
\* prefix being smaller.
RECURSIVE LexLess(_, _)
LexLess(s, t) ==
  IF t = << >> THEN FALSE
  ELSE IF s = << >> THEN TRUE
  ELSE IF Head(s) = Head(t) THEN LexLess(Tail(s), Tail(t))
  ELSE CharCode(Head(s)) < CharCode(Head(t))

\* v1 < v2 for numbers given by their decimal representations.
NumeralLess(v1, v2) ==
  \/ Len(v1) < Len(v2)
  \/ Len(v1) = Len(v2) /\ LexLess(v1, v2)

\* C16: for every model id and versions v1 < v2 below 10^16, the id of
\* (model id, v1) is smaller than the id of (model id, v2) as a string.
C16_IdOrdering ==
  (call.f = "generateVersionedModelId" /\ call.ids # << >>)
    => ( NumeralLess(call.versions[1], call.versions[2])
           => LexLess(call.ids[1], call.ids[2]) )

C16_Witness ==
  /\ call.f = "generateVersionedModelId" /\ call.ids # << >>
  /\ call.versions = << <<"9">>, <<"1">> \o repeat("0", paddingLength - 1) >>
  /\ LexLess(call.ids[1], call.ids[2])
  /\ ~LexLess(call.versions[1], call.versions[2])

\* ------------------------------------------- a writer that retries update
\* The writer that re-reads and retries; the other callers compete with it.
Retrier == CHOOSE c \in Callers : \A d \in Callers : c <= d

\* Version 0 of the revised document is stored; the retrier has had no conflict.
InitRetry ==
  /\ adapter = ReliableAdapter
  /\ callers = Callers
  /\ partitionKey = Undefined
  /\ store = createNewVersion(InitialStore, [email |-> FirstEmail] @@ (modelIdKey :> Revised), 0).store
  /\ InitCallers
  /\ call = [f |-> "retry", conflicts |-> 0]

\* The retrier reads the latest version of the document.
retry_read(c) ==
  /\ arg[c] = NoArg
  /\ find(c, <<Revised>>)

\* The retrier takes the document it read.
retry_take(c) ==
  /\ pc[c] = "done" /\ op[c] = "findLastVersionByModelId"
  /\ res[c].tag = "Right" /\ res[c].value.tag = "Some"
  /\ pc' = [pc EXCEPT ![c] = "idle"]
  /\ op' = [op EXCEPT ![c] = "none"]
  /\ key' = [key EXCEPT ![c] = NoKey]
  /\ arg' = [arg EXCEPT ![c] = res[c].value.value]
  /\ next' = [next EXCEPT ![c] = NoVersion]
  /\ res' = [res EXCEPT ![c] = NoResult]
  /\ calls' = [calls EXCEPT ![c] = << >>]
  /\ UNCHANGED <<callers, store, partitionKey, call, adapter>>

\* The retrier calls update on the document it read, with its change.
retry_update(c) ==
  /\ arg[c] # NoArg
  /\ update(c, [arg[c] EXCEPT !.email = SecondEmail])

\* update returned 409 Conflict: the retrier starts over.  Its conflicts are
\* counted up to MaxVersion.
retry_conflict(c) ==
  /\ pc[c] = "done" /\ op[c] = "update" /\ IsConflict(res[c])
  /\ pc' = [pc EXCEPT ![c] = "idle"]
  /\ op' = [op EXCEPT ![c] = "none"]
  /\ key' = [key EXCEPT ![c] = NoKey]
  /\ next' = [next EXCEPT ![c] = NoVersion]
  /\ res' = [res EXCEPT ![c] = NoResult]
  /\ call' = [call EXCEPT !.conflicts = IF @ < MaxVersion THEN @ + 1 ELSE @]
  /\ calls' = [calls EXCEPT ![c] = << >>]
  /\ UNCHANGED <<callers, store, partitionKey, arg, adapter>>

RetrierStep ==
  \/ retry_read(Retrier)
  \/ retry_take(Retrier)
  \/ retry_update(Retrier)
  \/ retry_conflict(Retrier)

\* The competing writers write finitely often: versions below MaxVersion only.
CompetitorStep ==
  \E c \in callers \ {Retrier} :
    \/ \E o \in CreateItems : create(c, o)
    \/ \E d \in store, e \in Emails :
         IsRevised(d) /\ update(c, [d EXCEPT !.email = e]) /\ next'[c] < MaxVersion
    \/ \E o \in UpsertItems : upsert_getNextVersion(c, o) /\ next'[c] < MaxVersion
    \/ upsert_createNewVersion(c)
    \/ return(c)

NextRetry == RetrierStep \/ CompetitorStep

\* The retrier keeps running: its continuations are scheduled.
SpecRetry == InitRetry /\ [][NextRetry]_vars /\ WF_vars(RetrierStep)

\* C17: a writer that, on each 409 Conflict from update, re-reads the latest
\* version with findLastVersionByModelId and retries update on it eventually
\* succeeds, the competing writers writing finitely often and the store
\* returning no other error.
C17_RetrySucceeds ==
  <>(Wrote(Retrier) /\ op[Retrier] = "update")

C17_Witness ==
  /\ call.f = "retry" /\ call.conflicts > 0
  /\ Wrote(Retrier) /\ op[Retrier] = "update"
  /\ res[Retrier].value.version = MaxVersion

\* C18: no call is retried.  Every step of a call issues exactly one container
\* call; a finished create or update has issued one create, a finished upsert
\* one query and at most one create, a pending upsert one query; and when the
\* container rejects the call of a step, the call finishes in that step with
\* the container's error and the store unchanged.
C18_NoRetry ==
  [][\A c \in callers :
       (pc[c] # "done" /\ pc'[c] # "idle")
         => /\ Len(calls'[c]) = Len(calls[c]) + 1
            /\ pc'[c] = "upsert" => calls'[c] = <<"query">>
            /\ (pc'[c] = "done" /\ op'[c] \in {"create", "update"})
                 => calls'[c] = <<"create">>
            /\ (pc'[c] = "done" /\ op'[c] = "upsert")
                 => calls'[c] \in { <<"query">>, <<"query", "create">> }
            /\ adapter.answer = "error"
                 => /\ pc'[c] = "done"
                    /\ res'[c] = Left(CosmosErrorResponse(adapter.code))
                    /\ store' = store]_vars

C18_Witness ==
  \E c \in callers :
    /\ pc[c] = "done" /\ op[c] = "upsert"
    /\ calls[c] = <<"query", "create">>
    /\ res[c] = Left(CosmosErrorResponse(500))

\* The step is a call of caller c to the base model's create, upsert or find.
BaseStep(c) ==
  /\ pc[c] = "idle" /\ pc'[c] = "done"
  /\ op'[c] \in {"base.create", "base.upsert", "base.find"}

\* C19: when the container rejects a create, an upsert or a point read with
\* a code other than 409, the call returns a COSMOS_ERROR_RESPONSE carrying
\* that code: not a success, not none, not 409 Conflict.
C19_StoreError ==
  [][\A c \in callers :
       (BaseStep(c) /\ adapter.answer = "error")
         => /\ res'[c].tag = "Left"
            /\ res'[c].value.kind = "COSMOS_ERROR_RESPONSE"
            /\ res'[c].value.error.code = adapter.code
            /\ ~IsConflict(res'[c])
            /\ store' = store]_vars

C19_Witness ==
  \E c \in callers :
    /\ pc[c] = "done" /\ op[c] = "base.find" /\ calls[c] = <<"read">>
    /\ res[c] = Left(CosmosErrorResponse(429))
    /\ \E d \in store : d.id = PaddedId(key[c][1], 0)

\* C20: when the container reports success for a create (the id was free) or
\* an upsert but returns no resource, the call returns COSMOS_EMPTY_RESPONSE
\* as an error: not a success and not none.
C20_EmptyResponse ==
  [][\A c \in callers, doc \in BaseItems :
       /\ ( /\ op'[c] = "base.create" /\ base_create(c, doc)
            /\ adapter.answer = "empty"
            /\ ~\E d \in store : d.id = doc.id )
            => res'[c] = Left(CosmosEmptyResponse)
       /\ ( /\ op'[c] = "base.upsert" /\ base_upsert(c, doc)
            /\ adapter.answer = "empty" )
            => res'[c] = Left(CosmosEmptyResponse)]_vars

C20_Witness ==
  \E c \in callers :
    /\ pc[c] = "done" /\ op[c] = "base.upsert" /\ calls[c] = <<"upsert">>
    /\ res[c] = Left(CosmosEmptyResponse)

\* C21: find(id, partitionKey) returns the document stored at that id in that
\* partition when the read returns it, and succeeds with none (it is no error)
\* when the read returns no document.
C21_Find ==
  [][\A c \in callers, doc \in BaseItems :
       ( /\ op'[c] = "base.find" /\ base_find(c, doc)
         /\ adapter.answer # "error" )
       => LET found == { d \in store : d.id = doc.id /\ PartitionOf(d) = PartitionOf(doc) }
          IN  IF found # {} /\ adapter.answer = "ok"
              THEN \E d \in found : res'[c] = Right(some(d))
              ELSE res'[c] = Right(none)]_vars

C21_Witness ==
  \E c \in callers :
    /\ pc[c] = "done" /\ op[c] = "base.find"
    /\ \E d \in store : res[c] = Right(some(d)) /\ getSearchKey(d) = key[c]

\* The stored document that a lookup of the latest version in the partition
\* of search key k selects is d.
SelectedBy(d, st, k) ==
  /\ d \in DocsOfModelId(st, k[1]) /\ PartitionOf(d) = k[Len(k)]
  /\ \A e \in DocsOfModelId(st, k[1]) : PartitionOf(e) = k[Len(k)] => e.version <= d.version

\* C22: when the stored entry that find reads, or that findLastVersionByModelId
\* selects, lacks a required field of the entity, the call returns a decoding
\* error: not none, and not a success holding the entry as it is; and no find
\* or lookup ever succeeds with a document that lacks a required field.
C22_DecodeSafety ==
  [][\A c \in callers :
       /\ \A d \in store :
            ( /\ op'[c] = "base.find" /\ base_find(c, d)
              /\ adapter.answer = "ok" /\ Drifted(d) )
            => res'[c] = Left(CosmosDecodingError)
       /\ \A k \in SearchKeys, d \in store :
            ( /\ op'[c] = "findLastVersionByModelId" /\ find(c, k)
              /\ adapter.answer # "error" /\ SelectedBy(d, store, k) /\ Drifted(d) )
            => res'[c] = Left(CosmosDecodingError)
       /\ ( /\ pc[c] = "idle" /\ pc'[c] = "done"
            /\ op'[c] \in {"base.find", "findLastVersionByModelId"}
            /\ res'[c].tag = "Right" /\ res'[c].value # none )
            => ~Drifted(res'[c].value.value)]_vars

C22_Witness ==
  \E c \in callers :
    /\ pc[c] = "done" /\ op[c] = "findLastVersionByModelId"
    /\ res[c] = Left(CosmosDecodingError)
    /\ \E d \in store : Drifted(d) /\ SelectedBy(d, store, key[c])

\* C23: in a streamed query, an element that fails to decode ends the
\* sequence with a decoding error: the iteration that read it stops with
\* COSMOS_DECODING_ERROR and is delivered no element after it.
C23_DecodeAbort ==
  \A i \in Iterations :
    call.iterations[i].failed
      => /\ call.iterations[i].st = "rejected"
         /\ call.iterations[i].error = "COSMOS_DECODING_ERROR"
         /\ call.iterations[i].after = << >>

\* The positions (page, place in the page) of the items of the feed that decode.
DecodablePositions ==
  { pos \in (1..Len(call.feed)) \X (1..2) :
      /\ pos[2] <= Len(call.feed[pos[1]])
      /\ retrievedItemT_decode(call.feed[pos[1]][pos[2]]).tag = "Right" }

\* C24: the iterations of one mapped iterable share one cursor over the
\* source: no page of the source is handed to two iterations, and together
\* the iterations are delivered no more elements than the source holds, so
\* nothing consumed by one iteration is delivered again by another.
C24_SharedCursor ==
  \A i, j \in Iterations :
    i # j
      => /\ call.iterations[i].pages \cap call.iterations[j].pages = {}
         /\ Len(call.iterations[i].out) + Len(call.iterations[j].out)
              <= Cardinality(DecodablePositions)

C24_Witness ==
  \E i, j \in Iterations :
    /\ call.iterations[i].st = "done" /\ call.iterations[j].st = "done"
    /\ call.iterations[i].pages = {1} /\ call.iterations[j].pages = {2}
    /\ call.iterations[i].out # << >> /\ call.iterations[j].out # << >>

\* C25: upsert of the base model never returns 409 Conflict; given a document
\* whose id is taken it succeeds, the document it returns is the one given
\* (with its system properties), and that document is then the only one
\* stored at that id.
C25_BaseUpsertOverwrites ==
  [][\A c \in callers, doc \in BaseItems :
       (op'[c] = "base.upsert" /\ base_upsert(c, doc))
         => /\ ~IsConflict(res'[c])
            /\ adapter.answer = "ok"
                 => /\ res'[c] = Right(SystemProperties @@ doc)
                    /\ res'[c].value \in store'
                    /\ \A d \in store' :
                         (d.id = doc.id /\ PartitionOf(d) = PartitionOf(doc))
                           => d = res'[c].value]_vars

\* An upsert has succeeded on an id held from the start by a document with
\* the first email, which the document with the second email replaced.
C25_Witness ==
  \E c \in callers :
    /\ pc[c] = "done" /\ op[c] = "base.upsert"
    /\ res[c].tag = "Right" /\ res[c].value \in store
    /\ \E m \in ModelIds \ {Revised} :
         /\ res[c].value.id = PaddedId(m, 0)
         /\ res[c].value.email = SecondEmail

\* C26: update given a stale document, one whose version is lower than the
\* latest stored version of its model id, returns 409 Conflict and stores
\* nothing; an update that succeeds was given the latest version.
C26_StaleUpdate ==
  [][\A c \in callers, d \in store, e \in Emails :
       ( /\ op'[c] = "update" /\ next'[c] = d.version + 1
         /\ update(c, [d EXCEPT !.email = e]) )
         => /\ d.version + 1 < NextOfModelId(store, d[modelIdKey])
                 => IsConflict(res'[c]) /\ store' = store
            /\ res'[c].tag = "Right"
                 => d.version + 1 = NextOfModelId(store, d[modelIdKey])]_vars

\* An update from version 0 has returned 409 while version 2 is the latest.
C26_Witness ==
  \E c \in callers :
    /\ pc[c] = "done" /\ op[c] = "update" /\ key[c] = <<Revised>>
    /\ next[c] = 1 /\ IsConflict(res[c])
    /\ NextOfModelId(store, Revised) = 3

\* The call of caller c, which has resolved, was a create for search key k.
Created(c, k) == pc[c] = "done" /\ op[c] = "create" /\ key[c] = k

\* C27: of the creates that callers make concurrently for a model id with no
\* stored document, the one that reaches the container first succeeds and
\* stores version 0, and every other one returns 409 Conflict and stores
\* nothing; so of the creates outstanding for a model id at most one has
\* succeeded, whatever the interleaving.
C27_ConcurrentCreate ==
  [][\A c \in callers, o \in CreateItems :
       (op'[c] = "create" /\ create(c, o))
         => /\ IF DocsOfModelId(store, o[modelIdKey]) = {}
               THEN /\ res'[c].tag = "Right" /\ res'[c].value.version = 0
                    /\ store' = store \cup {res'[c].value}
               ELSE /\ IsConflict(res'[c]) /\ store' = store
            /\ \A b \in callers \ {c} :
                 (Created(b, key'[c]) /\ res[b].tag = "Right") => IsConflict(res'[c])]_vars

\* Three concurrent creates of one model id: one succeeded, two returned 409.
C27_Witness ==
  \E a, b, c \in callers :
    /\ a # b /\ b # c /\ a # c
    /\ Created(a, <<Revised>>) /\ Created(b, <<Revised>>) /\ Created(c, <<Revised>>)
    /\ res[a].tag = "Right" /\ IsConflict(res[b]) /\ IsConflict(res[c])
    /\ { d.version : d \in DocsOfModelId(store, Revised) } = {0}

\* Caller a has made an update and caller b an upsert of the same model id,
\* both aiming at the same next version: the update was based on version k
\* and the lookup of the upsert saw k as the latest.
RacingUpdateUpsert(a, b) ==
  /\ a # b
  /\ pc[a] = "done" /\ op[a] = "update"
  /\ op[b] = "upsert"
  /\ key[a] = key[b] /\ next[a] = next[b]

VersionStored(st, k, n) ==
  \E d \in DocsOfModelId(st, k[1]) : PartitionOf(d) = k[Len(k)] /\ d.version = n

C29_MonotonicVersion ==
  [][/\ \A c \in callers :
          (WriteStep(c) /\ res'[c].tag = "Right") => store' # store
     /\ store' # store
          => \A m \in ModelIds :
               LET before == findLastVersionByModelId(store, <<m>>)
                   after == findLastVersionByModelId(store', <<m>>)
               IN  /\ NextOfModelId(store', m) >= NextOfModelId(store, m)
                   /\ before.value.tag = "Some"
                        => /\ after.value.tag = "Some"
                           /\ after.value.value.version >= before.value.value.version
                   /\ \A c \in callers :
                        (WriteStep(c) /\ key'[c] = <<m>> /\ res'[c].tag = "Right")
                          => /\ res'[c].value.version = NextOfModelId(store, m)
                             /\ NextOfModelId(store', m) = NextOfModelId(store, m) + 1
                             /\ after.value.value.version = res'[c].value.version]_vars

\* A write has succeeded with version 2, which is now the latest.
C29_Witness ==
  \E c \in callers :
    /\ Wrote(c) /\ key[c] = <<Revised>>
    /\ res[c].value.version = 2
    /\ NextOfModelId(store, Revised) = 3

\* C30: when the lookup of the latest version made by upsert returns an
\* error, upsert returns that error at once: the query is the only call it
\* makes on the container (no create), and the store is unchanged.
C30_UpsertFailsFast ==
  [][\A c \in callers, o \in UpsertItems :
       ( /\ pc[c] = "idle" /\ op'[c] = "upsert" /\ key'[c] = getSearchKey(o)
         /\ findLastVersionByModelId(store, getSearchKey(o)).tag = "Left" )
       => /\ pc'[c] = "done"
          /\ res'[c] = findLastVersionByModelId(store, getSearchKey(o))
          /\ calls'[c] = <<"query">>
          /\ store' = store]_vars

\* An upsert has returned the error 429 of its lookup after one query.
C30_Witness ==
  \E c \in callers :
    /\ pc[c] = "done" /\ op[c] = "upsert"
    /\ calls[c] = <<"query">>
    /\ res[c] = Left(CosmosErrorResponse(429))

\* The partition that a lookup with search key k is scoped to: the partition
\* key it carries, otherwise the model id.
ScopeOf(k) == IF Len(k) > 1 THEN k[2] ELSE k[1]

\* The documents of the model id of search key k stored in partition part.
DocsInPartition(st, k, part) ==
  { d \in DocsOfModelId(st, k[1]) : PartitionOf(d) = part }

\* C31: findLastVersionByModelId looks in one partition only, the one its
\* search key names (the model id when the key carries no partition key): it
\* returns the latest version of the model id stored there, none when
\* nothing of the model id is stored there, and the same result as if the
\* documents of every other partition were not stored.
C31_PartitionScope ==
  [][\A c \in callers, k \in SearchKeys :
       (op'[c] = "findLastVersionByModelId" /\ find(c, k))
         => LET here == DocsInPartition(store, k, ScopeOf(k))
            IN  /\ res'[c].tag = "Right"
                /\ IF here = {} THEN res'[c].value = none
                   ELSE /\ res'[c].value.tag = "Some"
                        /\ res'[c].value.value \in here
                        /\ \A d \in here : d.version <= res'[c].value.value.version
                /\ res'[c] = findLastVersionByModelId(
                                { d \in store : PartitionOf(d) = ScopeOf(k) }, k)]_vars

\* With a partition key configured, a lookup in one partition has returned
\* version 0 while another partition holds version 1 of the same model id.
C31_Witness ==
  \E c \in callers :
    /\ partitionKey # Undefined
    /\ pc[c] = "done" /\ op[c] = "findLastVersionByModelId"
    /\ Len(key[c]) = 2
    /\ res[c].tag = "Right" /\ res[c].value.tag = "Some"
    /\ res[c].value.value.version = 0
    /\ \E d \in DocsOfModelId(store, key[c][1]) :
         PartitionOf(d) # key[c][2] /\ d.version = 1

\* The version after the highest one stored for the (model id, partition key)
\* pair of item o, 0 when none is stored.
NextOfItem(st, o) ==
  IF DocsOfItem(st, o) = {} THEN 0
  ELSE 1 + CHOOSE v \in { d.version : d \in DocsOfItem(st, o) } :
             \A d \in DocsOfItem(st, o) : d.version <= v

\* C32: with a partition-key field other than the model id field, upsert
\* looks up the latest version with the search key (model id, partition key
\* of the item), the version it computes is max+1 over the documents of that
\* pair only (0 when the pair has none), and the document it then writes is
\* stored in that same partition.
C32_UpsertPartition ==
  [][\A c \in callers :
       /\ \A o \in UpsertItems :
            (pc'[c] = "upsert" /\ upsert_getNextVersion(c, o))
              => /\ key'[c] = <<o[modelIdKey], o[partitionKeyField]>>
                 /\ next'[c] = NextOfItem(store, o)
       /\ (store' # store /\ upsert_createNewVersion(c))
            => \E d \in store' :
                 /\ store' = store \cup {d}
                 /\ d[modelIdKey] = key[c][1]
                 /\ PartitionOf(d) = key[c][2]
                 /\ d.version = next[c]]_vars

\* An upsert has written version 0 in its partition while another partition
\* holds versions 0 and 1 of the same model id.
C32_Witness ==
  \E c \in callers :
    /\ partitionKey = partitionKeyField
    /\ pc[c] = "done" /\ op[c] = "upsert"
    /\ res[c].tag = "Right" /\ res[c].value.version = 0
    /\ res[c].value \in store
    /\ PartitionOf(res[c].value) = key[c][2]
    /\ { d.version : d \in { x \in DocsOfModelId(store, key[c][1]) :
                               PartitionOf(x) # key[c][2] } } = {0, 1}

\* C33: for a version of more than 16 digits the id is the model id, "-",
\* and the last 16 digits of the version.
C33_Truncation ==
  (call.f = "generateVersionedModelId" /\ call.ids # << >>)
    => \A i \in 1..2 :
         LET v == call.pairs[i].version
         IN  Len(v) > paddingLength
               => call.ids[i] = call.pairs[i].modelId \o <<"-">>
                                  \o SubSeq(v, Len(v) - paddingLength + 1, Len(v))

\* Versions 10^16 and 0 of one model id have the same id, and version 1 of
\* it, the smaller of 1 and 10^16 + 2, has not the smaller id.
C33_Witness ==
  /\ call.f = "generateVersionedModelId" /\ call.ids # << >>
  /\ call.pairs[1].modelId = call.pairs[2].modelId
  /\ \/ /\ call.pairs[1].version = <<"1">> \o repeat("0", paddingLength)
        /\ call.pairs[2].version = <<"0">>
        /\ call.ids[1] = call.ids[2]
     \/ /\ call.pairs[1].version = <<"1">>
        /\ Len(call.pairs[2].version) > paddingLength
        /\ NumeralLess(call.pairs[1].version, call.pairs[2].version)
        /\ ~ LexLess(call.ids[1], call.ids[2])

\* C34: two different (model id, version) pairs with versions below 10^16
\* never have the same id.
C34_Injective ==
  (call.f = "generateVersionedModelId" /\ call.ids # << >>)
    => ( ( /\ Len(call.pairs[1].version) <= paddingLength
           /\ Len(call.pairs[2].version) <= paddingLength
           /\ call.pairs[1] # call.pairs[2] )
         => call.ids[1] # call.ids[2] )

\* Ids were generated for a model id that ends in a digit and for the model
\* id without that digit, with versions 1 and 11, and they differ.
C34_Witness ==
  /\ call.f = "generateVersionedModelId" /\ call.ids # << >>
  /\ call.pairs[1] = [modelId |-> <<"a", "1">>, version |-> <<"1">>]
  /\ call.pairs[2] = [modelId |-> <<"a">>, version |-> <<"1", "1">>]
  /\ call.ids[1] # call.ids[2]

\* C35: f has been applied to exactly the elements the source has delivered
\* so far, once each and in their order, and to nothing else (not to the
\* value of the final result); the mapped iterator has delivered one element
\* for each of them, f of it, and as many as the source holds once it is done.
C35_AppliedToElementsOnly ==
  call.f = "mapAsyncIterator"
    => /\ call.applied = [i \in 1..call.cursor |-> Page(call.feed[i])]
       /\ call.delivered = [i \in 1..call.cursor |-> decodePage(Page(call.feed[i]))]
       /\ call.done => Len(call.delivered) = Len(call.feed)

\* The storage call failed with code BlobNotFound.
BlobNotFound(a) == a.err # Null /\ a.err.code = BlobNotFoundCode

\* C36: getBlobAsText resolves once; to Right(none) exactly when the storage
\* call failed with code BlobNotFound or gave no error and a null result; to
\* Left(err) for every other storage error; getBlobAsObject resolves (it
\* never rejects), to Right(none) when the text is none, and to a Left when
\* the text is not JSON or is JSON that does not decode.
C36_BlobRead ==
  (call.f = "getBlobAsObject" /\ call.pc # "getBlobToText")
    => LET a == call.storage
           text == call.resolved[1]
       IN  /\ Len(call.resolved) = 1
           /\ (text = Right(none))
                 <=> (BlobNotFound(a) \/ (a.err = Null /\ a.result = Null))
           /\ (a.err # Null /\ ~BlobNotFound(a)) => text = Left(a.err)
           /\ call.pc = "done"
                 => /\ call.settled = "resolved"
                    /\ text = Right(none) => call.value = Right(none)
                    /\ ( /\ text.tag = "Right" /\ text.value # none
                          /\ text.value.value.text \in MalformedTexts \cup OtherJsonTexts )
                         => call.value.tag = "Left"

\* The storage failed with code BlobNotFound and the blob has been read as
\* none, as text and as object.
C36_Witness ==
  /\ call.f = "getBlobAsObject" /\ call.pc = "done"
  /\ BlobNotFound(call.storage)
  /\ call.resolved = <<Right(none)>>
  /\ call.settled = "resolved" /\ call.value = Right(none)

====
